---------------------------- MODULE Spec2Model ----------------------------
(***************************************************************************)
(* A model of the HTTP+REST transport of the A2A server                    *)
(* (src/server/express/http_rest_routes.ts), of its key-casing utilities   *)
(* (src/server/express/utils.ts) and of the sample agent executor          *)
(* (tck/agent/index.ts).                                                   *)
(*                                                                         *)
(* Strings whose characters matter (object keys, path action suffixes,     *)
(* query values) are sequences of one-character strings.  JSON values are  *)
(* tagged records [t, v]:                                                  *)
(*   "str"  v = sequence of characters      "num"  v = integer             *)
(*   "null" / "undefined"  v = 0                                           *)
(*   "arr"  v = sequence of values                                         *)
(*   "obj"  v = sequence of entries [k, val] in insertion order            *)
(***************************************************************************)
EXTENDS Integers, Sequences, FiniteSets, TLC

VARIABLES
    \* ---- key-casing utilities (utils.ts) ----
    kx,        \* the value the transforms are applied to
    kval,      \* the current value, after the transforms in ksteps
    ksteps,    \* the transforms applied so far, in order
    \* ---- REST adapter (http_rest_routes.ts) ----
    card,      \* capabilities of the agent card getAgentCard resolves with
    pc,        \* "idle", "received", "streaming" or "done"
    req,       \* the request being served
    calls,     \* the request-handler operations called for it, with their parameters
    outcome,   \* how the last request-handler operation ended
    caught,    \* the error handleError was given, if any
    res,       \* the Express response object
    stream,    \* what is left of the event stream the handler returned
    nextCalled,\* the router passed the request on (no route matched)
    clock,     \* Date.now()
    \* the sample agent executor (tck/agent/index.ts)
    runningTask,   \* SUTAgentExecutor.runningTask
    lastContextId, \* SUTAgentExecutor.lastContextId
    invocations,   \* the execute and cancelTask invocations, in the order they started
    published      \* the events given to eventBus.publish, in order, with their bus

kvars == <<kx, kval, ksteps>>

rvars == <<card, pc, req, calls, outcome, caught, res, stream, nextCalled, clock>>

avars == <<runningTask, lastContextId, invocations, published>>

vars == <<kx, kval, ksteps, card, pc, req, calls, outcome, caught, res, stream,
          nextCalled, clock, runningTask, lastContextId, invocations, published>>

-----------------------------------------------------------------------------
(* Bounds of the model *)

\* longest object key the key-casing inputs are built from
MaxKeyLen == 3
\* longest value of the historyLength query parameter
MaxQueryLen == 3
\* most events a stream yields
MaxEvents == 2
\* most invocations (execute and cancelTask together) of the sample executor
MaxInvocations == 3
\* largest value Date.now() takes
MaxClock == 2

-----------------------------------------------------------------------------
(* Characters *)

LowerChars == <<"a","b","c","d","e","f","g","h","i","j","k","l","m",
                "n","o","p","q","r","s","t","u","v","w","x","y","z">>
UpperChars == <<"A","B","C","D","E","F","G","H","I","J","K","L","M",
                "N","O","P","Q","R","S","T","U","V","W","X","Y","Z">>

Range(s) == { s[i] : i \in DOMAIN s }

\* [a-z]
IsLower(c) == c \in Range(LowerChars)
\* [A-Z]
IsUpper(c) == c \in Range(UpperChars)

\* String.prototype.toUpperCase / toLowerCase on one character
toUpperCase(c) ==
    IF IsLower(c) THEN UpperChars[CHOOSE i \in DOMAIN LowerChars : LowerChars[i] = c]
    ELSE c
toLowerCase(c) ==
    IF IsUpper(c) THEN LowerChars[CHOOSE i \in DOMAIN UpperChars : UpperChars[i] = c]
    ELSE c

-----------------------------------------------------------------------------
(* JSON values *)

JStr(s)   == [t |-> "str", v |-> s]
JNum(n)   == [t |-> "num", v |-> n]
JNull     == [t |-> "null", v |-> 0]
JUndef    == [t |-> "undefined", v |-> 0]
JArr(xs)  == [t |-> "arr", v |-> xs]
JObj(es)  == [t |-> "obj", v |-> es]
Entry(k, val) == [k |-> k, val |-> val]

-----------------------------------------------------------------------------
(* utils.ts *)

\* str.replace(/_([a-z])/g, (_, letter) => letter.toUpperCase()):
\* leftmost non-overlapping matches, scanned from position i
RECURSIVE CamelFrom(_, _)
CamelFrom(str, i) ==
    IF i > Len(str) THEN <<>>
    ELSE IF str[i] = "_" /\ i + 1 <= Len(str) /\ IsLower(str[i + 1])
         THEN <<toUpperCase(str[i + 1])>> \o CamelFrom(str, i + 2)
         ELSE <<str[i]>> \o CamelFrom(str, i + 1)

toCamelCase(str) == CamelFrom(str, 1)

\* str.replace(/[A-Z]/g, (letter) => `_${letter.toLowerCase()}`)
RECURSIVE SnakeFrom(_, _)
SnakeFrom(str, i) ==
    IF i > Len(str) THEN <<>>
    ELSE IF IsUpper(str[i])
         THEN <<"_", toLowerCase(str[i])>> \o SnakeFrom(str, i + 1)
         ELSE <<str[i]>> \o SnakeFrom(str, i + 1)

\* toSnakeCase that lowers the capitals and inserts no underscore
toSnakeCase_NoUnderscore(str) == [i \in DOMAIN str |-> toLowerCase(str[i])]

toSnakeCase(str) == SnakeFrom(str, 1)

\* result[key] = value on a plain object: an existing key keeps its place
\* and takes the new value, a new key is appended
SetKey(es, k, val) ==
    IF \E i \in DOMAIN es : es[i].k = k
    THEN [i \in DOMAIN es |-> IF es[i].k = k THEN Entry(k, val) ELSE es[i]]
    ELSE Append(es, Entry(k, val))

\* the assignments result[key] = value, for the entries es[i..] in order
RECURSIVE AssignEntries(_, _, _)
AssignEntries(result, es, i) ==
    IF i > Len(es) THEN result
    ELSE AssignEntries(SetKey(result, es[i].k, es[i].val), es, i + 1)

\* keyTransform(key), for keyTransform one of toCamelCase and toSnakeCase
ApplyKeyTransform(keyTransform, key) ==
    IF keyTransform = "toCamelCase" THEN toCamelCase(key) ELSE toSnakeCase(key)

\* transformKeys applying the key transform to string values as well
RECURSIVE transformKeys_StringsToo(_, _)
transformKeys_StringsToo(data, keyTransform) ==
    IF data.t = "str" THEN JStr(ApplyKeyTransform(keyTransform, data.v))
    ELSE IF data.t \notin {"obj", "arr"} THEN data
    ELSE IF data.t = "arr"
         THEN JArr([i \in DOMAIN data.v |-> transformKeys_StringsToo(data.v[i], keyTransform)])
         ELSE JObj(AssignEntries(<<>>,
                   [i \in DOMAIN data.v |->
                       Entry(ApplyKeyTransform(keyTransform, data.v[i].k),
                             transformKeys_StringsToo(data.v[i].val, keyTransform))], 1))

\* transformKeys(data, keyTransform, recurse), recurse being the transform
\* that called it:
\*   if (data == null || typeof data !== 'object') return data;
\*   if (Array.isArray(data)) return data.map(recurse);
\*   for (const [key, value] of Object.entries(data))
\*       result[keyTransform(key)] = recurse(value);
RECURSIVE transformKeys(_, _)
transformKeys(data, keyTransform) ==
    IF data.t \notin {"obj", "arr"} THEN data
    ELSE IF data.t = "arr"
         THEN JArr([i \in DOMAIN data.v |-> transformKeys(data.v[i], keyTransform)])
         ELSE JObj(AssignEntries(<<>>,
                   [i \in DOMAIN data.v |->
                       Entry(ApplyKeyTransform(keyTransform, data.v[i].k),
                             transformKeys(data.v[i].val, keyTransform))], 1))

restToInternal(data) == transformKeys(data, "toCamelCase")

internalToRest(data) == transformKeys(data, "toSnakeCase")

-----------------------------------------------------------------------------
(* http_rest_routes.ts: constants *)

HTTP_STATUS_OK == 200
HTTP_STATUS_CREATED == 201
HTTP_STATUS_ACCEPTED == 202
HTTP_STATUS_NO_CONTENT == 204
HTTP_STATUS_BAD_REQUEST == 400
HTTP_STATUS_UNAUTHORIZED == 401
HTTP_STATUS_NOT_FOUND == 404
HTTP_STATUS_CONFLICT == 409
HTTP_STATUS_INTERNAL_SERVER_ERROR == 500
HTTP_STATUS_NOT_IMPLEMENTED == 501

A2A_PARSE_ERROR == -32700
A2A_INVALID_REQUEST == -32600
A2A_METHOD_NOT_FOUND == -32601
A2A_INVALID_PARAMS == -32602
A2A_TASK_NOT_FOUND == -32001
A2A_TASK_NOT_CANCELABLE == -32002
A2A_PUSH_NOTIFICATION_NOT_SUPPORTED == -32003
A2A_UNSUPPORTED_OPERATION == -32004
A2A_UNAUTHORIZED == -32005
\* the code of A2AError.internalError
A2A_INTERNAL_ERROR == -32603

\* header name and value
SSE_HEADERS ==
    { <<"Content-Type", "text/event-stream">>, <<"Cache-Control", "no-cache">>,
      <<"Connection", "keep-alive">>, <<"X-Accel-Buffering", "no">> }

ACTION_SEND == <<"s","e","n","d">>
ACTION_STREAM == <<"s","t","r","e","a","m">>
ACTION_CANCEL == <<"c","a","n","c","e","l">>
ACTION_SUBSCRIBE == <<"s","u","b","s","c","r","i","b","e">>

\* object keys of the values the adapter builds
K_id == <<"i","d">>
K_code == <<"c","o","d","e">>
K_message == <<"m","e","s","s","a","g","e">>
K_taskId == <<"t","a","s","k","I","d">>
K_contextId == <<"c","o","n","t","e","x","t","I","d">>
K_historyLength == <<"h","i","s","t","o","r","y","L","e","n","g","t","h">>
K_pushNotificationConfigId ==
    <<"p","u","s","h","N","o","t","i","f","i","c","a","t","i","o","n",
      "C","o","n","f","i","g","I","d">>
K_url == <<"u","r","l">>

-----------------------------------------------------------------------------
(* Thrown values and the A2AError factories *)

\* A thrown value: an A2AError (code, message), another Error (message; the
\* code field is a property the adapter never reads) or a value that is no
\* Error.  Message texts are sequences of text chunks.
NoThrown == [kind |-> "none", code |-> 0, message |-> <<>>]
A2AError(code, message) == [kind |-> "A2AError", code |-> code, message |-> message]

methodNotFound(message) == A2AError(A2A_METHOD_NOT_FOUND, message)
invalidParams(message) == A2AError(A2A_INVALID_PARAMS, message)
unsupportedOperation(message) == A2AError(A2A_UNSUPPORTED_OPERATION, message)
pushNotificationNotSupported ==
    A2AError(A2A_PUSH_NOTIFICATION_NOT_SUPPORTED, <<"Push Notification is not supported">>)
internalError(message) == A2AError(A2A_INTERNAL_ERROR, message)

\* a2aError.toJSONRPCError()
toJSONRPCError(e) == JObj(<<Entry(K_code, JNum(e.code)), Entry(K_message, JStr(e.message))>>)

-----------------------------------------------------------------------------
(* The Express response object *)

\* a fresh response: status 200 until res.status is called, nothing sent
NewResponse ==
    [ statusCode    |-> HTTP_STATUS_OK,
      body          |-> JUndef,   \* the argument of res.json
      headersSent   |-> FALSE,
      writableEnded |-> FALSE,
      headers       |-> {},       \* names given to res.setHeader
      written       |-> <<>>,     \* the chunks given to res.write, in order
      statusCalls   |-> 0,        \* calls of res.status
      jsonCalls     |-> 0,        \* calls of res.json
      endCalls      |-> 0 ]       \* calls of res.end

\* res.end(): sends the headers if they were not, and ends the response
ResEnd(r) == [r EXCEPT !.headersSent = TRUE, !.writableEnded = TRUE, !.endCalls = @ + 1]

\* res.json(body): sends the headers and the body, and ends the response
ResJson(r, body) ==
    [r EXCEPT !.body = body, !.jsonCalls = @ + 1,
              !.headersSent = TRUE, !.writableEnded = TRUE]

\* res.write(chunk): sends the headers if they were not, then the chunk
ResWrite(r, chunk) == [r EXCEPT !.written = Append(@, chunk), !.headersSent = TRUE]

\* sendResponse calling res.json whatever the status
sendResponse_AlwaysJson(r, statusCode, body) ==
    ResJson([r EXCEPT !.statusCode = statusCode, !.statusCalls = @ + 1], body)

sendResponse(r, statusCode, body) ==
    LET r1 == [r EXCEPT !.statusCode = statusCode, !.statusCalls = @ + 1]
    IN  IF statusCode = HTTP_STATUS_NO_CONTENT THEN ResEnd(r1) ELSE ResJson(r1, body)

\* mapErrorToStatus without the case of TASK_NOT_CANCELABLE
mapErrorToStatus_ConflictAsDefault(errorCode) ==
    CASE errorCode \in {A2A_PARSE_ERROR, A2A_INVALID_REQUEST, A2A_INVALID_PARAMS} ->
            HTTP_STATUS_BAD_REQUEST
      [] errorCode \in {A2A_METHOD_NOT_FOUND, A2A_TASK_NOT_FOUND} ->
            HTTP_STATUS_NOT_FOUND
      [] errorCode \in {A2A_PUSH_NOTIFICATION_NOT_SUPPORTED, A2A_UNSUPPORTED_OPERATION} ->
            HTTP_STATUS_NOT_IMPLEMENTED
      [] errorCode = A2A_UNAUTHORIZED ->
            HTTP_STATUS_UNAUTHORIZED
      [] OTHER ->
            HTTP_STATUS_INTERNAL_SERVER_ERROR

mapErrorToStatus(errorCode) ==
    CASE errorCode \in {A2A_PARSE_ERROR, A2A_INVALID_REQUEST, A2A_INVALID_PARAMS} ->
            HTTP_STATUS_BAD_REQUEST
      [] errorCode \in {A2A_METHOD_NOT_FOUND, A2A_TASK_NOT_FOUND} ->
            HTTP_STATUS_NOT_FOUND
      [] errorCode = A2A_TASK_NOT_CANCELABLE ->
            HTTP_STATUS_CONFLICT
      [] errorCode \in {A2A_PUSH_NOTIFICATION_NOT_SUPPORTED, A2A_UNSUPPORTED_OPERATION} ->
            HTTP_STATUS_NOT_IMPLEMENTED
      [] errorCode = A2A_UNAUTHORIZED ->
            HTTP_STATUS_UNAUTHORIZED
      [] OTHER ->
            HTTP_STATUS_INTERNAL_SERVER_ERROR

\* error instanceof A2AError ? error : A2AError.internalError(
\*     error instanceof Error ? error.message : fallback)
Normalize(error, fallback) ==
    IF error.kind = "A2AError" THEN error
    ELSE internalError(IF error.kind = "Error" THEN error.message ELSE fallback)

\* handleError reading the code and message of the thrown value as it is
handleError_NotNormalized(r, error) ==
    IF r.headersSent
    THEN IF ~r.writableEnded THEN ResEnd(r) ELSE r
    ELSE sendResponse(r, mapErrorToStatus(error.code), toJSONRPCError(error))

\* handleError without the check of res.headersSent
handleError_NoHeadersCheck(r, error) ==
    LET a2aError == Normalize(error, <<"Internal server error">>)
    IN  sendResponse(r, mapErrorToStatus(a2aError.code), toJSONRPCError(a2aError))

handleError(r, error) ==
    IF r.headersSent
    THEN IF ~r.writableEnded THEN ResEnd(r) ELSE r
    ELSE LET a2aError == Normalize(error, <<"Internal server error">>)
         IN  sendResponse(r, mapErrorToStatus(a2aError.code), toJSONRPCError(a2aError))

\* agentCard.capabilities?.[capability], as a truth value
HasCapability(c, capability) ==
    /\ c.capabilities
    /\ IF capability = "streaming" THEN c.streaming = "true"
                                   ELSE c.pushNotifications = "true"

\* requireCapability once getAgentCard has resolved with card c: the error it
\* throws, or NoThrown
requireCapability(c, capability) ==
    IF ~HasCapability(c, capability)
    THEN IF capability = "pushNotifications"
         THEN pushNotificationNotSupported
         ELSE unsupportedOperation(<<"Agent does not support streaming">>)
    ELSE NoThrown

-----------------------------------------------------------------------------
(* parseInt and parseHistoryLength *)

Digits == <<"0","1","2","3","4","5","6","7","8","9">>
IsDigit(c) == c \in Range(Digits)
DigitValue(c) == (CHOOSE i \in DOMAIN Digits : Digits[i] = c) - 1
\* white space the number parser skips
IsWhiteSpace(c) == c = " "

\* the first position at or after i that holds no white space
RECURSIVE SkipWhiteSpace(_, _)
SkipWhiteSpace(str, i) ==
    IF i <= Len(str) /\ IsWhiteSpace(str[i]) THEN SkipWhiteSpace(str, i + 1) ELSE i

\* the position after the digits that start at i
RECURSIVE DigitsEnd(_, _)
DigitsEnd(str, i) ==
    IF i <= Len(str) /\ IsDigit(str[i]) THEN DigitsEnd(str, i + 1) ELSE i

\* the value of the digits str[i..j-1], after acc
RECURSIVE DigitsNumber(_, _, _, _)
DigitsNumber(str, i, j, acc) ==
    IF i >= j THEN acc ELSE DigitsNumber(str, i + 1, j, 10 * acc + DigitValue(str[i]))

\* parseInt(str, 10): leading white space, an optional sign, then the longest
\* run of digits; NaN when there is none.  (-0 is 0 here.)
parseInt(str) ==
    LET s == SkipWhiteSpace(str, 1)
        signed == s <= Len(str) /\ str[s] \in {"+", "-"}
        sign == IF signed /\ str[s] = "-" THEN -1 ELSE 1
        i == IF signed THEN s + 1 ELSE s
        j == DigitsEnd(str, i)
    IN  IF j = i THEN [nan |-> TRUE, n |-> 0]
        ELSE [nan |-> FALSE, n |-> sign * DigitsNumber(str, i, j, 0)]

\* parseHistoryLength refusing 0 (parsed <= 0)
parseHistoryLength_ZeroRejected(value) ==
    LET parsed == parseInt(value)
    IN  IF parsed.nan
        THEN [ok |-> FALSE, n |-> 0,
              error |-> invalidParams(<<"historyLength must be a valid integer">>)]
        ELSE IF parsed.n <= 0
        THEN [ok |-> FALSE, n |-> 0,
              error |-> invalidParams(<<"historyLength must be non-negative">>)]
        ELSE [ok |-> TRUE, n |-> parsed.n, error |-> NoThrown]

\* parseHistoryLength(value) for a value that is a string: the parsed number,
\* or the error thrown
parseHistoryLength(value) ==
    LET parsed == parseInt(value)
    IN  IF parsed.nan
        THEN [ok |-> FALSE, n |-> 0,
              error |-> invalidParams(<<"historyLength must be a valid integer">>)]
        ELSE IF parsed.n < 0
        THEN [ok |-> FALSE, n |-> 0,
              error |-> invalidParams(<<"historyLength must be non-negative">>)]
        ELSE [ok |-> TRUE, n |-> parsed.n, error |-> NoThrown]

-----------------------------------------------------------------------------
(* Requests and routing *)

\* str.toLowerCase(), as the i flag of the route patterns compares
LowerCaseOf(str) == [i \in DOMAIN str |-> toLowerCase(str[i])]

\* ROUTE_PATTERN.MESSAGE_ACTION = /^\/v1\/message:(send|stream)$/i, on the
\* path /v1/message:<action>
MatchMessageAction(action) == LowerCaseOf(action) \in {ACTION_SEND, ACTION_STREAM}

\* ROUTE_PATTERN.TASK_ACTION = /^\/v1\/tasks\/([^\/\:]+):([a-z]+)$/i, on the
\* path /v1/tasks/<taskId>:<action>
MatchTaskAction(taskId, action) ==
    /\ Len(taskId) > 0
    /\ \A i \in DOMAIN taskId : taskId[i] \notin {"/", ":"}
    /\ Len(action) > 0
    /\ \A i \in DOMAIN action : IsLower(action[i]) \/ IsUpper(action[i])

\* The route a request is dispatched to, "none" when the router passes it on.
\* A request is [method, shape, taskId, action, configId, historyLength, body];
\* shape is the form of its path:
\*   "card"        /v1/card
\*   "message"     /v1/message:<action>
\*   "task"        /v1/tasks/<taskId>
\*   "taskAction"  /v1/tasks/<taskId>:<action>
\*   "configs"     /v1/tasks/<taskId>/pushNotificationConfigs
\*   "config"      /v1/tasks/<taskId>/pushNotificationConfigs/<configId>
Route(r) ==
    CASE r.method = "GET" /\ r.shape = "card" -> "card"
      [] r.method = "POST" /\ r.shape = "message" /\ MatchMessageAction(r.action) ->
            "messageAction"
      [] r.method = "GET" /\ r.shape = "task" -> "getTask"
      [] r.method = "POST" /\ r.shape = "taskAction" /\ MatchTaskAction(r.taskId, r.action) ->
            "taskAction"
      [] r.method = "POST" /\ r.shape = "configs" -> "pushCreate"
      [] r.method = "GET" /\ r.shape = "configs" -> "pushList"
      [] r.method = "GET" /\ r.shape = "config" -> "pushGet"
      [] r.method = "DELETE" /\ r.shape = "config" -> "pushDelete"
      [] OTHER -> "none"

\* extractAction(req.path, pattern)
extractAction(r, pattern) ==
    IF pattern = "TASK_ACTION"
    THEN IF MatchTaskAction(r.taskId, r.action)
         THEN [matched |-> TRUE, taskId |-> r.taskId, action |-> r.action]
         ELSE [matched |-> FALSE, taskId |-> <<>>, action |-> <<>>]
    ELSE IF MatchMessageAction(r.action)
         THEN [matched |-> TRUE, taskId |-> <<>>, action |-> r.action]
         ELSE [matched |-> FALSE, taskId |-> <<>>, action |-> <<>>]

\* RequiredCapability without the check of the subscribe action
RequiredCapability_SubscribeUngated(route, action) ==
    CASE route = "messageAction" /\ action = ACTION_STREAM -> "streaming"
      [] route = "pushCreate" -> "pushNotifications"
      [] OTHER -> "none"

\* RequiredCapability with the streaming check made for every message action
RequiredCapability_SendGated(route, action) ==
    CASE route = "messageAction" -> "streaming"
      [] route = "taskAction" /\ action = ACTION_SUBSCRIBE -> "streaming"
      [] route = "pushCreate" -> "pushNotifications"
      [] OTHER -> "none"

\* the capability a route handler requires before it calls the request handler
RequiredCapability(route, action) ==
    CASE route = "messageAction" /\ action = ACTION_STREAM -> "streaming"
      [] route = "taskAction" /\ action = ACTION_SUBSCRIBE -> "streaming"
      [] route = "pushCreate" -> "pushNotifications"
      [] OTHER -> "none"

-----------------------------------------------------------------------------
(* Outcomes of the request handler's operations *)

NoOutcome == [kind |-> "none", result |-> JUndef, thrown |-> NoThrown]
Resolved(v) == [kind |-> "resolved", result |-> v, thrown |-> NoThrown]
Rejected(e) == [kind |-> "rejected", result |-> JUndef, thrown |-> e]

\* a stream: the events it has still to yield, how it ends after them (NoThrown:
\* it returns), the events the loop has pulled, and the streamError caught
NoStream == [events |-> <<>>, ending |-> NoThrown, yielded |-> <<>>, failure |-> NoThrown]
NoCaught == [any |-> FALSE, error |-> NoThrown, headersSent |-> FALSE]

\* a call of a request-handler operation, and whether it resolved or rejected
Call(op, params, ended) == [op |-> op, params |-> params, ended |-> ended]

StreamOps == {"sendMessageStream", "resubscribe"}

\* try { await handler(req, res) } catch (error) { handleError(res, error) }
Catch(cs, o, error) ==
    [ calls |-> cs, outcome |-> o,
      caught |-> [any |-> TRUE, error |-> error, headersSent |-> res.headersSent],
      res |-> handleError(res, error), stream |-> NoStream, pc |-> "done" ]

\* the handler ends with sendResponse(res, statusCode, body)
Reply(cs, o, statusCode, body) ==
    [ calls |-> cs, outcome |-> o, caught |-> NoCaught,
      res |-> sendResponse(res, statusCode, body), stream |-> NoStream, pc |-> "done" ]

\* sendStreamResponse setting the SSE headers without flushing them
StartStream_NoFlush(cs, o, s) ==
    [ calls |-> cs, outcome |-> o, caught |-> NoCaught,
      res |-> [res EXCEPT !.headers = @ \cup SSE_HEADERS],
      stream |-> s, pc |-> "streaming" ]

\* sendStreamResponse up to its first await: the SSE headers are set and flushed
StartStream(cs, o, s) ==
    [ calls |-> cs, outcome |-> o, caught |-> NoCaught,
      res |-> [res EXCEPT !.headers = @ \cup SSE_HEADERS, !.headersSent = TRUE],
      stream |-> s, pc |-> "streaming" ]

\* A route handler under asyncHandler:
\*     [await requireCapability(capability);]
\*     const result = await requestHandler[op](params);
\*     sendResponse(res, statusCode, result)   or   await sendStreamResponse(res, result)
\* co is how getAgentCard ends, o how the operation ends, s the stream a
\* streaming operation resolves with.
RunHandler(capability, op, params, statusCode, co, o, s) ==
    LET gateCalls == IF capability = "none" THEN <<>>
                     ELSE <<Call("getAgentCard", JUndef, co.kind)>>
        gate == IF capability = "none" THEN NoThrown
                ELSE IF co.kind = "rejected" THEN co.thrown
                ELSE requireCapability(card, capability)
        cs == Append(gateCalls, Call(op, params, o.kind))
    IN  IF gate.kind # "none" THEN Catch(gateCalls, NoOutcome, gate)
        ELSE IF o.kind = "rejected" THEN Catch(cs, o, o.thrown)
        ELSE IF op \in StreamOps THEN StartStream(cs, o, s)
        ELSE Reply(cs, o, statusCode,
                   IF op = "deleteTaskPushNotificationConfig" THEN JUndef ELSE o.result)

Apply(step) ==
    /\ calls' = step.calls
    /\ outcome' = step.outcome
    /\ caught' = step.caught
    /\ res' = step.res
    /\ stream' = step.stream
    /\ pc' = step.pc
    /\ UNCHANGED <<card, req, nextCalled, clock, kvars, avars>>

-----------------------------------------------------------------------------
(* Inputs of the REST specification *)

TaskIds == {<<"t","1">>, <<"t","2">>}
ConfigIds == {<<"c","f","g">>}

\* action suffixes after the colon
ActionPool ==
    { ACTION_SEND, ACTION_STREAM, ACTION_CANCEL, ACTION_SUBSCRIBE,
      <<"S","E","N","D">>, <<"S","t","r","e","a","m">>, <<"C","a","n","c","e","l">>,
      <<"S","U","B","S","C","R","I","B","E">>, <<"u","n","k","n","o","w","n">>,
      <<"x","1">>, <<>> }

\* values of the historyLength query parameter
QueryAlphabet == {"0", "1", "-", "+", ".", "a", " "}

RECURSIVE QueryStringsUpTo(_)
QueryStringsUpTo(n) ==
    IF n = 0 THEN {<<>>}
    ELSE LET shorter == QueryStringsUpTo(n - 1)
         IN  shorter \cup { Append(s, c) : s \in shorter, c \in QueryAlphabet }

NoQuery == [present |-> FALSE, v |-> <<>>]
Queries == { [present |-> TRUE, v |-> s] : s \in QueryStringsUpTo(MaxQueryLen) }

K_history == <<"h","i","s","t","o","r","y">>
K_events == <<"e","v","e","n","t","s">>

MessageBody == JObj(<<Entry(K_message, JObj(<<Entry(K_taskId, JStr(<<"t","1">>))>>))>>)
Bodies == {JObj(<<>>), MessageBody}

BaseReq ==
    [ method |-> "GET", shape |-> "card", taskId |-> <<>>, action |-> <<>>,
      configId |-> <<>>, historyLength |-> NoQuery, body |-> JObj(<<>>) ]

Requests ==
    { [BaseReq EXCEPT !.method = m] : m \in {"GET", "POST", "DELETE"} }
    \cup { [BaseReq EXCEPT !.method = m, !.shape = "message", !.action = a, !.body = b] :
             m \in {"POST", "GET"}, a \in ActionPool, b \in Bodies }
    \cup { [BaseReq EXCEPT !.shape = "task", !.taskId = id] : id \in TaskIds }
    \cup { [BaseReq EXCEPT !.shape = "task", !.taskId = <<"t","1">>, !.historyLength = q] :
             q \in Queries }
    \cup { [BaseReq EXCEPT !.method = "POST", !.shape = "taskAction", !.taskId = id,
                           !.action = a] : id \in TaskIds, a \in ActionPool }
    \cup { [BaseReq EXCEPT !.method = m, !.shape = "configs", !.taskId = id, !.body = b] :
             m \in {"POST", "GET", "DELETE"}, id \in TaskIds, b \in Bodies }
    \cup { [BaseReq EXCEPT !.method = m, !.shape = "config", !.taskId = id, !.configId = c] :
             m \in {"GET", "DELETE", "POST"}, id \in TaskIds, c \in ConfigIds }

\* values the request handler resolves with
TaskResult ==
    JObj(<<Entry(K_id, JStr(<<"t","1">>)), Entry(K_contextId, JStr(<<"c","1">>)),
           Entry(K_history, JArr(<<>>))>>)
ConfigResult ==
    JObj(<<Entry(K_id, JStr(<<"c","f","g">>)), Entry(K_taskId, JStr(<<"t","1">>)),
           Entry(K_events, JArr(<<JStr(<<"task_status_update">>)>>))>>)
ConfigListResult == JArr(<<ConfigResult>>)
PlainResult == JObj(<<Entry(K_id, JStr(<<"t","2">>)), Entry(K_url, JStr(<<"http://x">>))>>)
Results == {TaskResult, ConfigListResult, PlainResult}

\* values the request handler rejects with
KnownCodes ==
    { A2A_PARSE_ERROR, A2A_INVALID_REQUEST, A2A_METHOD_NOT_FOUND, A2A_INVALID_PARAMS,
      A2A_TASK_NOT_FOUND, A2A_TASK_NOT_CANCELABLE, A2A_PUSH_NOTIFICATION_NOT_SUPPORTED,
      A2A_UNSUPPORTED_OPERATION, A2A_UNAUTHORIZED, A2A_INTERNAL_ERROR }
OtherCodes == {-32000, 0}
PlainError == [kind |-> "Error", code |-> 0, message |-> <<"Unexpected internal error">>]
CodedError == [kind |-> "Error", code |-> A2A_TASK_NOT_FOUND, message |-> <<"ENOENT">>]
ThrownValue == [kind |-> "value", code |-> 0, message |-> <<"a thrown string">>]
ThrownPool ==
    { A2AError(c, <<"boom">>) : c \in KnownCodes \cup OtherCodes }
    \cup {PlainError, CodedError, ThrownValue}

ValueOutcomes == { Resolved(v) : v \in Results } \cup { Rejected(e) : e \in ThrownPool }
StreamOutcomes == {Resolved(JUndef)} \cup { Rejected(e) : e \in ThrownPool }
CardOutcomes == {Resolved(JUndef), Rejected(PlainError)}

\* events a stream yields; JSON.stringify throws on one that is not serializable
StatusEvent == JObj(<<Entry(K_taskId, JStr(<<"t","1">>))>>)
Events ==
    { [json |-> TaskResult, serializable |-> TRUE],
      [json |-> StatusEvent, serializable |-> TRUE],
      [json |-> JObj(<<>>), serializable |-> FALSE] }

RECURSIVE EventSeqsUpTo(_)
EventSeqsUpTo(n) ==
    IF n = 0 THEN {<<>>}
    ELSE LET shorter == EventSeqsUpTo(n - 1)
         IN  shorter \cup { Append(s, e) : s \in shorter, e \in Events }

StreamEndings ==
    { NoThrown, A2AError(A2A_TASK_NOT_FOUND, <<"boom">>), PlainError, ThrownValue }
Streams ==
    { [events |-> es, ending |-> e, yielded |-> <<>>, failure |-> NoThrown] :
        es \in EventSeqsUpTo(MaxEvents), e \in StreamEndings }

Cards ==
    { [capabilities |-> TRUE, streaming |-> s, pushNotifications |-> p] :
        s \in {"true", "false"}, p \in {"true", "false"} }
    \cup { [capabilities |-> TRUE, streaming |-> "absent", pushNotifications |-> "absent"],
           [capabilities |-> FALSE, streaming |-> "absent", pushNotifications |-> "absent"] }

FullCard == [capabilities |-> TRUE, streaming |-> "true", pushNotifications |-> "true"]

-----------------------------------------------------------------------------
(* The REST adapter *)

\* no request in progress
RestIdle ==
    /\ card = FullCard
    /\ pc = "idle"
    /\ req = BaseReq
    /\ calls = <<>>
    /\ outcome = NoOutcome
    /\ caught = NoCaught
    /\ res = NewResponse
    /\ stream = NoStream
    /\ nextCalled = FALSE
    /\ clock = 0

Init ==
    /\ card \in Cards
    /\ pc = "idle"
    /\ req = BaseReq
    /\ calls = <<>>
    /\ outcome = NoOutcome
    /\ caught = NoCaught
    /\ res = NewResponse
    /\ stream = NoStream
    /\ nextCalled = FALSE
    /\ clock = 0
    /\ kx = JNull
    /\ kval = JNull
    /\ ksteps = <<>>
    /\ runningTask = {}
    /\ lastContextId = "undefined"
    /\ invocations = <<>>
    /\ published = <<>>

\* A request arrives at the router.  The adapter keeps no state from one
\* request to the next (each has its own req and res), so a behaviour follows
\* one request.
Receive ==
    /\ pc = "idle"
    /\ req' \in Requests
    /\ pc' = "received"
    /\ UNCHANGED <<card, calls, outcome, caught, res, stream, nextCalled, clock, kvars, avars>>

\* no route of the router matches: next()
Unmatched ==
    /\ pc = "received"
    /\ Route(req) = "none"
    /\ nextCalled' = TRUE
    /\ pc' = "done"
    /\ UNCHANGED <<card, req, calls, outcome, caught, res, stream, clock, kvars, avars>>

\* GET /v1/card
GetCard ==
    /\ pc = "received"
    /\ Route(req) = "card"
    /\ \E co \in CardOutcomes, o \in ValueOutcomes :
          Apply(RunHandler(RequiredCapability("card", <<>>),
                           "getAuthenticatedExtendedAgentCard", JUndef,
                           HTTP_STATUS_OK, co, o, NoStream))

\* POST /v1/message:send, POST /v1/message:stream
MessageAction ==
    /\ pc = "received"
    /\ Route(req) = "messageAction"
    /\ LET parsed == extractAction(req, "MESSAGE_ACTION")
           capability == RequiredCapability("messageAction", parsed.action)
       IN  IF ~parsed.matched
           THEN Apply(Catch(<<>>, NoOutcome, methodNotFound(<<"Invalid action path">>)))
           ELSE IF parsed.action = ACTION_STREAM
           THEN \E co \in CardOutcomes, o \in StreamOutcomes, s \in Streams :
                   Apply(RunHandler(capability, "sendMessageStream", req.body,
                                    HTTP_STATUS_OK, co, o, s))
           ELSE IF parsed.action = ACTION_SEND
           THEN \E co \in CardOutcomes, o \in ValueOutcomes :
                   Apply(RunHandler(capability, "sendMessage", req.body,
                                    HTTP_STATUS_CREATED, co, o, NoStream))
           ELSE Apply(Catch(<<>>, NoOutcome,
                            methodNotFound(<<"Unknown message action: ">> \o parsed.action)))

\* GET /v1/tasks/:taskId
GetTask ==
    /\ pc = "received"
    /\ Route(req) = "getTask"
    /\ LET hl == parseHistoryLength(req.historyLength.v)
           params == IF req.historyLength.present
                     THEN JObj(<<Entry(K_id, JStr(req.taskId)),
                                 Entry(K_historyLength, JNum(hl.n))>>)
                     ELSE JObj(<<Entry(K_id, JStr(req.taskId))>>)
       IN  IF req.historyLength.present /\ ~hl.ok
           THEN Apply(Catch(<<>>, NoOutcome, hl.error))
           ELSE \E co \in CardOutcomes, o \in ValueOutcomes :
                   Apply(RunHandler(RequiredCapability("getTask", <<>>), "getTask", params,
                                    HTTP_STATUS_OK, co, o, NoStream))

\* POST /v1/tasks/:taskId:cancel, POST /v1/tasks/:taskId:subscribe
TaskAction ==
    /\ pc = "received"
    /\ Route(req) = "taskAction"
    /\ LET parsed == extractAction(req, "TASK_ACTION")
           capability == RequiredCapability("taskAction", parsed.action)
           taskParams == JObj(<<Entry(K_id, JStr(parsed.taskId))>>)
       IN  IF ~parsed.matched
           THEN Apply(Catch(<<>>, NoOutcome, methodNotFound(<<"Invalid action path">>)))
           ELSE IF parsed.taskId = <<>>
           THEN Apply(Catch(<<>>, NoOutcome, invalidParams(<<"Task ID is required">>)))
           ELSE IF parsed.action = ACTION_CANCEL
           THEN \E co \in CardOutcomes, o \in ValueOutcomes :
                   Apply(RunHandler(capability, "cancelTask", taskParams,
                                    HTTP_STATUS_ACCEPTED, co, o, NoStream))
           ELSE IF parsed.action = ACTION_SUBSCRIBE
           THEN \E co \in CardOutcomes, o \in StreamOutcomes, s \in Streams :
                   Apply(RunHandler(capability, "resubscribe", taskParams,
                                    HTTP_STATUS_OK, co, o, s))
           ELSE Apply(Catch(<<>>, NoOutcome,
                            methodNotFound(<<"Unknown task action: ">> \o parsed.action)))

\* POST /v1/tasks/:taskId/pushNotificationConfigs
PushCreate ==
    /\ pc = "received"
    /\ Route(req) = "pushCreate"
    /\ \E co \in CardOutcomes, o \in ValueOutcomes :
          Apply(RunHandler(RequiredCapability("pushCreate", <<>>),
                           "setTaskPushNotificationConfig",
                           JObj(SetKey(req.body.v, K_taskId, JStr(req.taskId))),
                           HTTP_STATUS_CREATED, co, o, NoStream))

\* GET /v1/tasks/:taskId/pushNotificationConfigs
PushList ==
    /\ pc = "received"
    /\ Route(req) = "pushList"
    /\ \E co \in CardOutcomes, o \in ValueOutcomes :
          Apply(RunHandler(RequiredCapability("pushList", <<>>),
                           "listTaskPushNotificationConfigs",
                           JObj(<<Entry(K_id, JStr(req.taskId))>>),
                           HTTP_STATUS_OK, co, o, NoStream))

\* GET /v1/tasks/:taskId/pushNotificationConfigs/:configId
PushGet ==
    /\ pc = "received"
    /\ Route(req) = "pushGet"
    /\ \E co \in CardOutcomes, o \in ValueOutcomes :
          Apply(RunHandler(RequiredCapability("pushGet", <<>>),
                           "getTaskPushNotificationConfig",
                           JObj(<<Entry(K_id, JStr(req.taskId)),
                                  Entry(K_pushNotificationConfigId, JStr(req.configId))>>),
                           HTTP_STATUS_OK, co, o, NoStream))

\* DELETE /v1/tasks/:taskId/pushNotificationConfigs/:configId
PushDelete ==
    /\ pc = "received"
    /\ Route(req) = "pushDelete"
    /\ \E co \in CardOutcomes, o \in ValueOutcomes :
          Apply(RunHandler(RequiredCapability("pushDelete", <<>>),
                           "deleteTaskPushNotificationConfig",
                           JObj(<<Entry(K_id, JStr(req.taskId)),
                                  Entry(K_pushNotificationConfigId, JStr(req.configId))>>),
                           HTTP_STATUS_NO_CONTENT, co, o, NoStream))

\* chunks given to res.write
IdChunk(now) == [kind |-> "id", v |-> JNum(now)]
DataChunk(json) == [kind |-> "data", v |-> json]
ErrorEventChunk == [kind |-> "event", v |-> JStr(<<"error">>)]

\* the TypeError of JSON.stringify
StringifyError == [kind |-> "Error", code |-> 0, message |-> <<"Converting circular structure to JSON">>]

\* sendStreamResponse dropping the stream error without a frame
StreamCatch_SilentDrop(r, streamError) == r

\* sendStreamResponse: catch (streamError)
StreamCatch(r, streamError) ==
    LET a2aError == Normalize(streamError, <<"Streaming error">>)
    IN  IF ~r.writableEnded
        THEN ResWrite(ResWrite(r, ErrorEventChunk), DataChunk(toJSONRPCError(a2aError)))
        ELSE r

\* sendStreamResponse leaving the connection open
StreamFinally_NoEnd(r) == r

\* sendStreamResponse: finally
StreamFinally(r) == IF ~r.writableEnded THEN ResEnd(r) ELSE r

\* sendStreamResponse: one turn of the for await loop, from the pull of the
\* next event to the next await (or to the end of the function)
StreamStep ==
    /\ pc = "streaming"
    /\ IF stream.events # <<>>
       THEN \E now \in clock .. MaxClock :
               LET event == Head(stream.events)
                   r1 == ResWrite(res, IdChunk(now))
               IN  /\ clock' = now
                   /\ IF event.serializable
                      THEN /\ res' = ResWrite(r1, DataChunk(event.json))
                           /\ stream' = [stream EXCEPT !.events = Tail(@),
                                                        !.yielded = Append(@, event)]
                           /\ pc' = "streaming"
                      ELSE /\ res' = StreamFinally(StreamCatch(r1, StringifyError))
                           /\ stream' = [stream EXCEPT !.events = Tail(@),
                                                        !.yielded = Append(@, event),
                                                        !.failure = StringifyError]
                           /\ pc' = "done"
       ELSE /\ res' = StreamFinally(IF stream.ending.kind = "none" THEN res
                                    ELSE StreamCatch(res, stream.ending))
            /\ stream' = [stream EXCEPT !.failure = stream.ending]
            /\ pc' = "done"
            /\ clock' = clock
    /\ UNCHANGED <<card, req, calls, outcome, caught, nextCalled, kvars, avars>>

Next ==
    \/ Receive
    \/ Unmatched
    \/ GetCard
    \/ MessageAction
    \/ GetTask
    \/ TaskAction
    \/ PushCreate
    \/ PushList
    \/ PushGet
    \/ PushDelete
    \/ StreamStep

Spec == Init /\ [][Next]_vars

-----------------------------------------------------------------------------
(* Inputs of the key-casing specification *)

KeyAlphabet == {"a", "B", "_", "1"}

RECURSIVE StringsUpTo(_)
StringsUpTo(n) ==
    IF n = 0 THEN {<<>>}
    ELSE LET shorter == StringsUpTo(n - 1)
         IN  shorter \cup { Append(s, c) : s \in shorter, c \in KeyAlphabet }

\* object keys: non-empty, not starting with a digit (an integer-like key
\* would be reordered by the object)
Keys == { s \in StringsUpTo(MaxKeyLen) : Len(s) > 0 /\ s[1] # "1" }
ShortKeys == { s \in Keys : Len(s) <= 2 }

\* string values that look like keys
ValueA == JStr(<<"a", "_", "b">>)
ValueB == JStr(<<"a", "B">>)

\* an object with two keys that have the same camelCase and the same snake_case form
CollidingKeys == JObj(<<Entry(<<"a", "_", "a">>, ValueA), Entry(<<"a", "A">>, JNum(1))>>)

KeyInputs ==
    {JNull, JNum(1), ValueA, ValueB, JArr(<<>>), JObj(<<>>)}
    \cup { JObj(<<Entry(k1, ValueA)>>) : k1 \in Keys }
    \cup { JObj(<<Entry(p[1], ValueA), Entry(p[2], JNum(1))>>) :
             p \in { q \in Keys \X ShortKeys : q[1] # q[2] } }
    \cup { JObj(<<Entry(k1, JObj(<<Entry(k2, ValueB)>>))>>) : k1 \in Keys, k2 \in ShortKeys }
    \cup { JArr(<<JObj(<<Entry(k1, JArr(<<ValueA, JObj(<<Entry(k2, JNull)>>)>>))>>), ValueB>>) :
             k1 \in Keys, k2 \in ShortKeys }
    \cup {CollidingKeys}

KeysInit ==
    /\ kx \in KeyInputs
    /\ kval = kx
    /\ ksteps = <<>>
    /\ RestIdle
    /\ runningTask = {}
    /\ lastContextId = "undefined"
    /\ invocations = <<>>
    /\ published = <<>>

\* restToInternal applied to the current value (first, or after internalToRest)
ApplyRestToInternal ==
    /\ ksteps \in {<<>>, <<"internalToRest">>}
    /\ kval' = restToInternal(kval)
    /\ ksteps' = Append(ksteps, "restToInternal")
    /\ UNCHANGED <<kx, rvars, avars>>

\* internalToRest applied to the current value (first, or after restToInternal)
ApplyInternalToRest ==
    /\ ksteps \in {<<>>, <<"restToInternal">>}
    /\ kval' = internalToRest(kval)
    /\ ksteps' = Append(ksteps, "internalToRest")
    /\ UNCHANGED <<kx, rvars, avars>>

KeysNext == ApplyRestToInternal \/ ApplyInternalToRest

SpecKeys == KeysInit /\ [][KeysNext]_vars

-----------------------------------------------------------------------------
(* tck/agent/index.ts: SUTAgentExecutor *)

AgentTasks == {"task-1", "task-2"}
Contexts == {"ctx-1", "ctx-2"}
Buses == {"bus-1", "bus-2"}
\* the event bus an execute for a task is given (execute only publishes on it)
BusOf(taskId) == IF taskId = "task-1" THEN "bus-1" ELSE "bus-2"

\* the user message of the n-th invocation: every request brings its own
MessageOf(n) == <<"msg", n>>

\* lastContextId before any execute
Undefined == "undefined"
\* a value of uuidv4(): different from every context id of a request
Uuid == "uuid"

\* An event given to eventBus.publish.  A Task has no field final (FALSE
\* here) and a status update no history (empty here); time stamps, message
\* ids and the text of the agent's messages are left out.
initialTask_NoHistory(taskId, contextId, userMessage) ==
    [ kind |-> "task", taskId |-> taskId, contextId |-> contextId,
      state |-> "submitted", final |-> FALSE, history |-> <<>> ]

initialTask(taskId, contextId, userMessage) ==
    [ kind |-> "task", taskId |-> taskId, contextId |-> contextId,
      state |-> "submitted", final |-> FALSE, history |-> <<userMessage>> ]

workingStatusUpdate(taskId, contextId) ==
    [ kind |-> "status-update", taskId |-> taskId, contextId |-> contextId,
      state |-> "working", final |-> FALSE, history |-> <<>> ]

finalUpdate_NotFinal(taskId, contextId) ==
    [ kind |-> "status-update", taskId |-> taskId, contextId |-> contextId,
      state |-> "input-required", final |-> FALSE, history |-> <<>> ]

finalUpdate(taskId, contextId) ==
    [ kind |-> "status-update", taskId |-> taskId, contextId |-> contextId,
      state |-> "input-required", final |-> TRUE, history |-> <<>> ]

cancelledUpdate_NotFinal(taskId, contextId) ==
    [ kind |-> "status-update", taskId |-> taskId, contextId |-> contextId,
      state |-> "canceled", final |-> FALSE, history |-> <<>> ]

cancelledUpdate(taskId, contextId) ==
    [ kind |-> "status-update", taskId |-> taskId, contextId |-> contextId,
      state |-> "canceled", final |-> TRUE, history |-> <<>> ]

\* eventBus.publish(event) by invocation number `by`
Publish(log, bus, by, event) == Append(log, [bus |-> bus, by |-> by, event |-> event])

\* requestContext of the n-th invocation, an execute: the task and context
\* ids, the user message, and whether requestContext.task is set
RequestContexts(n) ==
    [ taskId : AgentTasks, contextId : Contexts, userMessage : {MessageOf(n)},
      task : BOOLEAN ]

\* the executor before any invocation
AgentIdle ==
    /\ runningTask = {}
    /\ lastContextId = Undefined
    /\ invocations = <<>>
    /\ published = <<>>

\* the other components at rest
KeysIdle ==
    /\ kx = JNull
    /\ kval = JNull
    /\ ksteps = <<>>

AgentInit ==
    /\ AgentIdle
    /\ RestIdle
    /\ KeysIdle

\* execute(requestContext, eventBus) up to its await: it runs without
\* interruption until the processing delay starts
execute ==
    /\ Len(invocations) < MaxInvocations
    /\ \E requestContext \in RequestContexts(Len(invocations) + 1) :
          LET taskId == requestContext.taskId
              eventBus == BusOf(taskId)
              contextId == requestContext.contextId
              me == Len(invocations) + 1
              p1 == IF ~requestContext.task
                    THEN Publish(published, eventBus, me,
                                 initialTask(taskId, contextId, requestContext.userMessage))
                    ELSE published
          IN  /\ lastContextId' = contextId
              /\ runningTask' = runningTask \cup {taskId}
              /\ published' = Publish(p1, eventBus, me, workingStatusUpdate(taskId, contextId))
              /\ invocations' = Append(invocations,
                     [ kind |-> "execute", requestContext |-> requestContext,
                       taskId |-> taskId, eventBus |-> eventBus, pc |-> "delay",
                       started |-> Len(published), delayed |-> Len(published'),
                       resumed |-> 0 ])
    /\ UNCHANGED <<kvars, rvars>>

\* execute returning after its delay without publishing
executeAfterDelay_ReturnsSilently ==
    /\ \E me \in DOMAIN invocations :
          /\ invocations[me].pc = "delay"
          /\ \A other \in 1 .. me - 1 : invocations[other].pc # "delay"
          /\ invocations' = [invocations EXCEPT ![me].pc = "returned",
                                                ![me].resumed = Len(published)]
    /\ UNCHANGED <<published, runningTask, lastContextId, kvars, rvars>>

\* the timer of an execute fires: the timers have the same delay, so they
\* fire in the order the invocations started.  The invocation returns if its
\* task is no longer in runningTask, and publishes the final update otherwise.
executeAfterDelay ==
    /\ \E me \in DOMAIN invocations :
          LET inv == invocations[me]
          IN  /\ inv.pc = "delay"
              /\ \A other \in 1 .. me - 1 : invocations[other].pc # "delay"
              /\ published' =
                    IF inv.taskId \notin runningTask THEN published
                    ELSE Publish(published, inv.eventBus, me,
                                 finalUpdate(inv.taskId, inv.requestContext.contextId))
              /\ invocations' = [invocations EXCEPT ![me].pc = "returned",
                                                    ![me].resumed = Len(published)]
    /\ UNCHANGED <<runningTask, lastContextId, kvars, rvars>>

\* cancelTask(taskId, eventBus): it has no await and runs without interruption
cancelTask ==
    /\ Len(invocations) < MaxInvocations
    /\ \E taskId \in AgentTasks, eventBus \in Buses :
          LET me == Len(invocations) + 1
              contextId == IF lastContextId # Undefined THEN lastContextId ELSE Uuid
          IN  /\ runningTask' = runningTask \ {taskId}
              /\ published' = Publish(published, eventBus, me,
                                      cancelledUpdate(taskId, contextId))
              /\ invocations' = Append(invocations,
                     [ kind |-> "cancelTask",
                       requestContext |-> [ taskId |-> taskId, contextId |-> lastContextId,
                                            userMessage |-> MessageOf(0), task |-> TRUE ],
                       taskId |-> taskId, eventBus |-> eventBus, pc |-> "returned",
                       started |-> Len(published), delayed |-> Len(published'),
                       resumed |-> Len(published') ])
    /\ UNCHANGED <<lastContextId, kvars, rvars>>

AgentNext == execute \/ executeAfterDelay \/ cancelTask

SpecAgent == AgentInit /\ [][AgentNext]_vars

\* The timer of a processing delay fires: an execute in its delay resumes.
SpecAgentFair == SpecAgent /\ WF_vars(executeAfterDelay)

-----------------------------------------------------------------------------
(* Helpers of the properties *)

\* the value of key k of a JSON object, JUndef when it has none
Field(json, k) ==
    IF json.t = "obj" /\ \E i \in DOMAIN json.v : json.v[i].k = k
    THEN json.v[CHOOSE i \in DOMAIN json.v : json.v[i].k = k].val
    ELSE JUndef

HasField(json, k) == json.t = "obj" /\ \E i \in DOMAIN json.v : json.v[i].k = k

\* the operations called so far
CalledOps == { calls[i].op : i \in DOMAIN calls }

\* getAgentCard did not fail
CardResolved == \A i \in DOMAIN calls : calls[i].op = "getAgentCard" => calls[i].ended = "resolved"

\* the handler of the request has run
Handled == pc \in {"streaming", "done"}

-----------------------------------------------------------------------------
(* C1 *)

\* the HTTP status the error table gives a code
TableStatus(code) ==
    CASE code \in {-32700, -32600, -32602} -> 400
      [] code \in {-32601, -32001} -> 404
      [] code = -32002 -> 409
      [] code \in {-32003, -32004} -> 501
      [] code = -32005 -> 401
      [] OTHER -> 500

\* the code of the error handleError was given: its own when it is an
\* A2AError, the one of InternalError otherwise
CaughtCode == IF caught.error.kind = "A2AError" THEN caught.error.code ELSE -32603

\* C1: whenever handleError is given an error before the headers are sent, the
\* status of the response is the one the table gives the error's code
\* (400, 404, 409, 501, 401, and 500 for every other code).
C1_StatusByErrorCode ==
    (caught.any /\ ~caught.headersSent) =>
        /\ res.statusCode = TableStatus(CaughtCode)
        /\ res.headersSent

\* a cancel that was rejected with TaskNotCancelable and answered 409
C1_Witness ==
    /\ caught.any /\ ~caught.headersSent
    /\ caught.error = A2AError(-32002, <<"boom">>)
    /\ Route(req) = "taskAction" /\ req.action = ACTION_CANCEL
    /\ res.statusCode = 409

-----------------------------------------------------------------------------
(* C2 *)

\* C2: every JSON body the adapter sends for a value the request handler
\* returned is internalToRest of that value.
C2_BodyIsSnakeCase ==
    (pc = "done" /\ outcome.kind = "resolved" /\ res.jsonCalls > 0) =>
        res.body = internalToRest(outcome.result)

-----------------------------------------------------------------------------
(* C3 *)

\* a POST whose path carries an action suffix the adapter has no action for
UnknownActionRequest ==
    /\ req.method = "POST"
    /\ \/ req.shape = "message" /\ req.action \notin {ACTION_SEND, ACTION_STREAM}
       \/ req.shape = "taskAction" /\ req.action \notin {ACTION_CANCEL, ACTION_SUBSCRIBE}

\* C3: a POST with an unknown action suffix is passed on by the router, and
\* the adapter answers it with no error body.
C3_UnknownActionFallsThrough ==
    (pc = "done" /\ UnknownActionRequest) =>
        /\ nextCalled
        /\ ~caught.any
        /\ res = NewResponse

-----------------------------------------------------------------------------
(* C4 *)

PushRoutes == {"pushCreate", "pushList", "pushGet", "pushDelete"}
PushOps ==
    { "setTaskPushNotificationConfig", "listTaskPushNotificationConfigs",
      "getTaskPushNotificationConfig", "deleteTaskPushNotificationConfig" }

\* C4: on each push-notification config route, with a card that lacks the
\* pushNotifications capability, the answer is 501 PushNotificationNotSupported
\* and no push-notification operation of the request handler is called.
C4_PushConfigGated ==
    (pc = "done" /\ Route(req) \in PushRoutes /\ CardResolved
        /\ ~HasCapability(card, "pushNotifications")) =>
        /\ res.statusCode = 501
        /\ Field(res.body, K_code) = JNum(-32003)
        /\ CalledOps \cap PushOps = {}

-----------------------------------------------------------------------------
(* C5 *)

\* POST /v1/message:stream or POST /v1/tasks/{id}:subscribe
StreamRequest ==
    /\ req.method = "POST"
    /\ \/ req.shape = "message" /\ req.action = ACTION_STREAM
       \/ req.shape = "taskAction" /\ req.action = ACTION_SUBSCRIBE

\* C5: a stream or subscribe request to an agent whose card lacks the
\* streaming capability calls nothing but getAgentCard, sets no SSE header,
\* writes no frame, and is answered 501 with a JSON body that has a code and
\* a message.
C5_StreamingGatedFirst ==
    (Handled /\ StreamRequest /\ CardResolved /\ ~HasCapability(card, "streaming")) =>
        /\ CalledOps = {"getAgentCard"}
        /\ res.headers = {}
        /\ res.written = <<>>
        /\ pc = "done"
        /\ res.statusCode = 501
        /\ res.jsonCalls = 1
        /\ HasField(res.body, K_code)
        /\ HasField(res.body, K_message)

\* a subscribe refused with 501 because the card says streaming: false
C5_Witness ==
    /\ pc = "done"
    /\ req.method = "POST" /\ req.shape = "taskAction" /\ req.action = ACTION_SUBSCRIBE
    /\ card.capabilities /\ card.streaming = "false"
    /\ CardResolved
    /\ res.statusCode = 501

-----------------------------------------------------------------------------
(* C6, C7 *)

\* the decimal representation of a non-negative integer: digits, at least one
IsDecimal(str) == Len(str) > 0 /\ \A i \in DOMAIN str : str[i] \in {"0","1","2","3","4","5","6","7","8","9"}

\* the number a decimal representation stands for
RECURSIVE DecimalNumber(_)
DecimalNumber(str) ==
    IF Len(str) = 0 THEN 0
    ELSE 10 * DecimalNumber(SubSeq(str, 1, Len(str) - 1))
         + (CASE str[Len(str)] = "0" -> 0 [] str[Len(str)] = "1" -> 1
              [] str[Len(str)] = "2" -> 2 [] str[Len(str)] = "3" -> 3
              [] str[Len(str)] = "4" -> 4 [] str[Len(str)] = "5" -> 5
              [] str[Len(str)] = "6" -> 6 [] str[Len(str)] = "7" -> 7
              [] str[Len(str)] = "8" -> 8 [] OTHER -> 9)

\* A value that stands for a non-negative integer, read generously: white
\* space around it, a sign before it and a fraction of zeros after it are
\* allowed (" 1", "+1", "-0", "1.0").  Every other value is a non-integer or
\* a negative number under any reading.
NonNegativeInteger(str) ==
    \E b \in 1 .. Len(str), e \in 1 .. Len(str), f \in 1 .. Len(str) :
        /\ b <= e /\ e <= f
        /\ \A i \in b .. e : str[i] \in {"0","1","2","3","4","5","6","7","8","9"}
        /\ \A i \in 1 .. (b - 1) : str[i] = " " \/ (i = b - 1 /\ str[i] \in {"+", "-"})
        /\ f > e => (str[e + 1] = "." /\ \A i \in (e + 2) .. f : str[i] = "0")
        /\ \A i \in (f + 1) .. Len(str) : str[i] = " "
        /\ (b > 1 /\ str[b - 1] = "-") => \A i \in b .. e : str[i] = "0"

\* C6: GET /v1/tasks/{id} with a historyLength that is a non-integer or a
\* negative number is answered 400 InvalidParams, and getTask is not called.
C6_InvalidHistoryLengthRefused ==
    (pc = "done" /\ Route(req) = "getTask" /\ req.historyLength.present
        /\ ~NonNegativeInteger(req.historyLength.v)) =>
        /\ res.statusCode = 400
        /\ Field(res.body, K_code) = JNum(-32602)
        /\ calls = <<>>

\* C7: GET /v1/tasks/{id} with historyLength the decimal N >= 0 calls getTask
\* with exactly {id, historyLength: N}, without the parameter with exactly
\* {id}; when getTask resolves the answer is 200 with its result.
C7_HistoryLengthPassed ==
    (pc = "done" /\ Route(req) = "getTask"
        /\ (req.historyLength.present => IsDecimal(req.historyLength.v))) =>
        /\ Len(calls) = 1
        /\ calls[1].op = "getTask"
        /\ calls[1].params =
              IF req.historyLength.present
              THEN JObj(<<Entry(K_id, JStr(req.taskId)),
                          Entry(K_historyLength,
                                JNum(DecimalNumber(req.historyLength.v)))>>)
              ELSE JObj(<<Entry(K_id, JStr(req.taskId))>>)
        /\ outcome.kind = "resolved" =>
              /\ res.statusCode = 200
              /\ res.jsonCalls = 1
              /\ res.body = outcome.result

\* historyLength=0 reached getTask as the number 0 and was answered 200
C7_Witness ==
    /\ pc = "done" /\ Route(req) = "getTask"
    /\ req.historyLength = [present |-> TRUE, v |-> <<"0">>]
    /\ Len(calls) = 1
    /\ Field(calls[1].params, K_historyLength) = JNum(0)
    /\ outcome.kind = "resolved"
    /\ res.statusCode = 200

-----------------------------------------------------------------------------
(* C8 *)

\* C8: a request-handler operation that fails with a value that is no
\* A2AError is answered 500 with the body {code: -32603, message}, message
\* being the error's message, or 'Internal server error' for a value that is
\* no Error; the body has nothing else, and nothing is written besides it.
C8_InternalErrorOnly ==
    (caught.any /\ caught.error.kind # "A2AError") =>
        /\ res.statusCode = 500
        /\ res.jsonCalls = 1
        /\ res.body = JObj(<<Entry(K_code, JNum(-32603)),
                             Entry(K_message,
                                   JStr(IF caught.error.kind = "Error"
                                        THEN caught.error.message
                                        ELSE <<"Internal server error">>))>>)
        /\ res.written = <<>>
        /\ res.headers = {}

\* sendMessage rejected with an Error that carries a code of its own
C8_Witness ==
    /\ pc = "done"
    /\ Route(req) = "messageAction" /\ req.action = ACTION_SEND
    /\ outcome = Rejected(CodedError)
    /\ caught.any /\ caught.error = CodedError
    /\ res.statusCode = 500
    /\ Field(res.body, K_code) = JNum(-32603)

-----------------------------------------------------------------------------
(* C10 *)

\* the operation of the four actions that need no capability
UngatedOp ==
    CASE req.method = "POST" /\ req.shape = "message" /\ req.action = ACTION_SEND ->
            "sendMessage"
      [] req.method = "GET" /\ req.shape = "task"
            /\ (req.historyLength.present => IsDecimal(req.historyLength.v)) ->
            "getTask"
      [] req.method = "POST" /\ req.shape = "taskAction" /\ req.action = ACTION_CANCEL ->
            "cancelTask"
      [] req.method = "GET" /\ req.shape = "card" ->
            "getAuthenticatedExtendedAgentCard"
      [] OTHER -> "none"

UngatedStatus ==
    CASE UngatedOp = "sendMessage" -> 201
      [] UngatedOp = "cancelTask" -> 202
      [] OTHER -> 200

\* C10: whatever the capabilities of the card, message send, task fetch,
\* cancel and card fetch call their operation and nothing else, answer its
\* result with the success status, and fail only as the operation fails; the
\* adapter itself refuses for a missing capability only stream, subscribe and
\* push-notification requests.
C10_GatingPerAction ==
    /\ (pc = "done" /\ UngatedOp # "none") =>
          /\ Len(calls) = 1
          /\ calls[1].op = UngatedOp
          /\ outcome.kind = "resolved" =>
                /\ ~caught.any
                /\ res.statusCode = UngatedStatus
                /\ res.body = outcome.result
          /\ outcome.kind = "rejected" =>
                /\ caught.any
                /\ caught.error = outcome.thrown
    /\ (caught.any /\ outcome.kind = "none" /\ CardResolved
           /\ caught.error.code \in {-32003, -32004}) =>
          \/ StreamRequest
          \/ Route(req) \in PushRoutes

\* message send answered 201 on an agent whose card has no capabilities
C10_Witness ==
    /\ pc = "done"
    /\ ~card.capabilities
    /\ UngatedOp = "sendMessage"
    /\ outcome.kind = "resolved"
    /\ res.statusCode = 201
    /\ res.body = outcome.result

-----------------------------------------------------------------------------
(* C9 *)

\* every key of a value, at every depth
RECURSIVE AllKeys(_)
AllKeys(json) ==
    IF json.t = "arr" THEN UNION { AllKeys(json.v[i]) : i \in DOMAIN json.v }
    ELSE IF json.t = "obj"
         THEN { json.v[i].k : i \in DOMAIN json.v }
              \cup UNION { AllKeys(json.v[i].val) : i \in DOMAIN json.v }
         ELSE {}

\* pure snake_case: lower-case letters and digits in words joined by single
\* underscores, the first word starting with a letter
IsSnakeCase(k) ==
    /\ Len(k) > 0
    /\ IsLower(k[1])
    /\ k[Len(k)] # "_"
    /\ \A i \in DOMAIN k :
          /\ IsLower(k[i]) \/ IsDigit(k[i]) \/ k[i] = "_"
          /\ (k[i] = "_" /\ i < Len(k)) => k[i + 1] # "_"

\* C9: internalToRest(restToInternal(x)) = x for every value x all of whose
\* keys are pure snake_case.
C9_RoundTrip ==
    (ksteps = <<"restToInternal", "internalToRest">>
        /\ \A k \in AllKeys(kx) : IsSnakeCase(k)) =>
        kval = kx

\* the round trip of an array that holds an object whose key is a_b, with a
\* nested object of snake_case key
C9_Witness ==
    /\ ksteps = <<"restToInternal", "internalToRest">>
    /\ kx.t = "arr"
    /\ <<"a", "_", "a">> \in AllKeys(kx)
    /\ Cardinality(AllKeys(kx)) = 2
    /\ \A k \in AllKeys(kx) : IsSnakeCase(k)
    /\ kval = kx

-----------------------------------------------------------------------------
(* C11 *)

\* the request-handler operation the route handler called last
LastOp == IF calls = <<>> THEN "none" ELSE calls[Len(calls)].op

\* the status of the table of successful answers
SuccessStatus(op) ==
    CASE op \in {"getAuthenticatedExtendedAgentCard", "getTask",
                 "getTaskPushNotificationConfig", "listTaskPushNotificationConfigs",
                 "sendMessageStream", "resubscribe"} -> 200
      [] op \in {"sendMessage", "setTaskPushNotificationConfig"} -> 201
      [] op = "cancelTask" -> 202
      [] op = "deleteTaskPushNotificationConfig" -> 204
      [] OTHER -> 0

\* C11: when the operation of a request resolves, the response has the status
\* of the table for that operation (200 card fetch, task fetch, config get,
\* config list, start of an SSE response; 201 message send, config create;
\* 202 cancel; 204 config delete) and its headers are sent; a response with
\* status 204 has no body: res.json was not called and nothing was written.
C11_SuccessStatus ==
    /\ (Handled /\ outcome.kind = "resolved") =>
          /\ res.statusCode = SuccessStatus(LastOp)
          /\ res.headersSent
          /\ LastOp \notin StreamOps => (res.statusCalls = 1 /\ res.writableEnded)
    /\ res.statusCode = 204 =>
          /\ res.body = JUndef
          /\ res.jsonCalls = 0
          /\ res.written = <<>>

\* a config delete that resolved with a value, answered 204 without a body
C11_Witness ==
    /\ pc = "done"
    /\ LastOp = "deleteTaskPushNotificationConfig"
    /\ outcome.kind = "resolved"
    /\ outcome.result # JUndef
    /\ res.statusCode = 204
    /\ res.endCalls = 1
    /\ res.body = JUndef

-----------------------------------------------------------------------------
(* C12 *)

\* the event stream of the SSE response has failed, after its events were
\* yielded and written
StreamFailed ==
    /\ pc = "done"
    /\ LastOp \in StreamOps
    /\ outcome.kind = "resolved"
    /\ stream.ending.kind # "none"
    /\ stream.events = <<>>
    /\ stream.failure = stream.ending

\* the body of the taxonomy error of a failure: the A2AError itself, or
\* InternalError with the message of the Error
TaxonomyBody(failure) ==
    IF failure.kind = "A2AError"
    THEN JObj(<<Entry(K_code, JNum(failure.code)), Entry(K_message, JStr(failure.message))>>)
    ELSE JObj(<<Entry(K_code, JNum(-32603)),
                Entry(K_message, JStr(IF failure.kind = "Error" THEN failure.message
                                      ELSE <<"Streaming error">>))>>)

\* C12: when the stream of an SSE response fails after yielding k events, the
\* chunks written are the id line and the data line of each of the k events,
\* in yield order, then one `event: error` line and one data line holding the
\* taxonomy error, and nothing else; the connection is ended, once.
C12_ErrorFrameAfterEvents ==
    StreamFailed =>
        LET k == Len(stream.yielded)
        IN  /\ Len(res.written) = 2 * k + 2
            /\ \A i \in 1 .. k :
                  /\ res.written[2 * i - 1].kind = "id"
                  /\ res.written[2 * i] = [kind |-> "data", v |-> stream.yielded[i].json]
            /\ res.written[2 * k + 1] = [kind |-> "event", v |-> JStr(<<"error">>)]
            /\ res.written[2 * k + 2] = [kind |-> "data", v |-> TaxonomyBody(stream.failure)]
            /\ res.writableEnded
            /\ res.endCalls = 1

\* a stream that threw an Error after two different events
C12_Witness ==
    /\ StreamFailed
    /\ Len(stream.yielded) = 2
    /\ stream.yielded[1] # stream.yielded[2]
    /\ stream.failure.kind = "Error"
    /\ Len(res.written) = 6
    /\ res.writableEnded

-----------------------------------------------------------------------------
(* C13 *)

\* the number of id lines among the first i chunks written
IdLinesUpTo(i) == Cardinality({ j \in 1 .. i : res.written[j].kind = "id" })

\* C13: when the connection of an SSE response is closed, every id line that
\* was written is directly followed by the data line of the same event.
C13_NoPartialFrame ==
    (LastOp \in StreamOps /\ res.writableEnded) =>
        \A i \in DOMAIN res.written :
            res.written[i].kind = "id" =>
                /\ i < Len(res.written)
                /\ res.written[i + 1] =
                      [kind |-> "data", v |-> stream.yielded[IdLinesUpTo(i)].json]

-----------------------------------------------------------------------------
(* C14 *)

\* the four SSE headers are set and the headers are sent
SseHeadersFlushed ==
    /\ res.headersSent
    /\ res.statusCode = 200
    /\ \A h \in { <<"Content-Type", "text/event-stream">>, <<"Cache-Control", "no-cache">>,
                  <<"Connection", "keep-alive">>, <<"X-Accel-Buffering", "no">> } :
          h \in res.headers

\* C14: every step of an SSE response that pulls from the stream (an event,
\* its end or its failure) or writes a chunk starts in a state where the four
\* SSE headers are set and flushed; this includes the first pull of a stream
\* that yields no event or fails at once.
C14_HeadersBeforeEvents ==
    [][(pc = "streaming" \/ res'.written # res.written
           \/ stream'.yielded # stream.yielded \/ stream'.failure # stream.failure)
          => SseHeadersFlushed]_vars

\* an SSE response whose stream failed on its first step: the headers are
\* flushed and the only frame is the error frame
C14_Witness ==
    /\ StreamFailed
    /\ stream.yielded = <<>>
    /\ SseHeadersFlushed
    /\ Len(res.written) = 2

-----------------------------------------------------------------------------
(* C15 *)

\* response r2 sets no status and no JSON body on top of response r1
NoSecondStatus(r1, r2) ==
    /\ r2.statusCalls = r1.statusCalls
    /\ r2.statusCode = r1.statusCode
    /\ r2.jsonCalls = r1.jsonCalls
    /\ r2.body = r1.body
    /\ r2.headersSent

\* C15: once the headers of a response are sent, no step of the adapter sets a
\* status code or a JSON body on it, and the headers stay sent, so there is at
\* most one status line; handleError given such a response, for any error,
\* sets no status and no body, writes nothing, and ends the response exactly
\* when it is not yet ended.
C15_NoSecondStatusLine ==
    /\ [][res.headersSent => NoSecondStatus(res, res')]_vars
    /\ [](res.headersSent =>
             \A e \in ThrownPool :
                 LET r2 == handleError(res, e)
                 IN  /\ NoSecondStatus(res, r2)
                     /\ r2.written = res.written
                     /\ r2.writableEnded
                     /\ r2.endCalls = res.endCalls + (IF res.writableEnded THEN 0 ELSE 1))

\* an SSE response whose stream failed after an event: no status was set, no
\* JSON body written, the connection ended once
C15_Witness ==
    /\ StreamFailed
    /\ Len(stream.yielded) = 1
    /\ res.headersSent
    /\ res.statusCalls = 0
    /\ res.jsonCalls = 0
    /\ res.endCalls = 1
    /\ handleError(res, PlainError) = res

-----------------------------------------------------------------------------
(* C16 *)

\* b is a with other keys: the same primitive and string values, arrays of the
\* same length with the elements in the same order, objects whose values are
\* those of a (in the same order as long as no two keys of a became one key)
RECURSIVE SameValues(_, _)
SameValues(a, b) ==
    IF a.t = "arr"
    THEN /\ b.t = "arr"
         /\ Len(b.v) = Len(a.v)
         /\ \A i \in DOMAIN a.v : SameValues(a.v[i], b.v[i])
    ELSE IF a.t = "obj"
    THEN /\ b.t = "obj"
         /\ Len(b.v) <= Len(a.v)
         /\ \A j \in DOMAIN b.v : \E i \in DOMAIN a.v : SameValues(a.v[i].val, b.v[j].val)
         /\ Len(b.v) = Len(a.v) =>
               \A i \in DOMAIN a.v : SameValues(a.v[i].val, b.v[i].val)
    ELSE b = a

-----------------------------------------------------------------------------
(* C17 *)

\* the events invocation number i has published, in order
EventsBy(i) == SelectSeq(published, LAMBDA e : e.by = i)

\* C17: an execute whose request context has no task publishes first a Task
\* snapshot in state submitted, with the task id and context id of the
\* context and the history [userMessage], and no other Task snapshot; an
\* execute whose request context has a task publishes no Task snapshot.
C17_InitialTaskSnapshot ==
    \A i \in DOMAIN invocations :
        invocations[i].kind = "execute" =>
            LET evs == EventsBy(i)
                rc == invocations[i].requestContext
            IN  IF ~rc.task
                THEN /\ Len(evs) >= 1
                     /\ evs[1].event.kind = "task"
                     /\ evs[1].event.state = "submitted"
                     /\ evs[1].event.taskId = rc.taskId
                     /\ evs[1].event.contextId = rc.contextId
                     /\ evs[1].event.history = <<rc.userMessage>>
                     /\ \A j \in 2 .. Len(evs) : evs[j].event.kind # "task"
                ELSE \A j \in DOMAIN evs : evs[j].event.kind # "task"

\* a finished execute for a new task after a finished execute for an existing
\* task: three events by the one, two by the other
C17_Witness ==
    /\ Len(invocations) >= 2
    /\ invocations[1].kind = "execute" /\ invocations[1].requestContext.task
    /\ invocations[2].kind = "execute" /\ ~invocations[2].requestContext.task
    /\ invocations[1].pc = "returned" /\ invocations[2].pc = "returned"
    /\ Len(EventsBy(1)) = 2
    /\ Len(EventsBy(2)) = 3
    /\ EventsBy(2)[1].event.history = <<MessageOf(2)>>

-----------------------------------------------------------------------------
(* C18 *)

\* a cancelTask for the task of invocation i ran while i was in its delay
\* (up to now, or up to the moment i resumed)
CancelledInDelay(i) ==
    LET inv == invocations[i]
        upTo == IF inv.pc = "delay" THEN Len(published) ELSE inv.resumed
    IN  \E p \in inv.delayed + 1 .. upTo :
            /\ published[p].event.state = "canceled"
            /\ published[p].event.taskId = inv.taskId

\* C18: an execute that has returned and was not cancelled has published, in
\* order, the Task snapshot (new task only), a working status update with
\* final = false and an input-required status update with final = true, and
\* nothing else: one final event, the last.  An execute still in its delay
\* has published no final event.
C18_OneFinalEventLast ==
    \A i \in DOMAIN invocations :
        invocations[i].kind = "execute" =>
            LET evs == EventsBy(i)
                n == Len(evs)
                rc == invocations[i].requestContext
            IN  /\ (invocations[i].pc = "returned" /\ ~CancelledInDelay(i)) =>
                      /\ n = (IF rc.task THEN 2 ELSE 3)
                      /\ ~rc.task => evs[1].event.kind = "task"
                      /\ evs[n - 1].event.kind = "status-update"
                      /\ evs[n - 1].event.state = "working"
                      /\ ~evs[n - 1].event.final
                      /\ evs[n].event.kind = "status-update"
                      /\ evs[n].event.state = "input-required"
                      /\ evs[n].event.final
                      /\ \A j \in 1 .. n : evs[j].event.taskId = rc.taskId
                      /\ Cardinality({ j \in 1 .. n : evs[j].event.final }) = 1
                /\ invocations[i].pc = "delay" =>
                      \A j \in 1 .. n : ~evs[j].event.final

\* an execute for a new task that returned although the other task was
\* cancelled during its delay
C18_Witness ==
    /\ Len(invocations) >= 2
    /\ invocations[1].kind = "execute"
    /\ invocations[1].pc = "returned"
    /\ ~invocations[1].requestContext.task
    /\ invocations[2].kind = "cancelTask"
    /\ invocations[2].taskId # invocations[1].taskId
    /\ ~CancelledInDelay(1)
    /\ Len(EventsBy(1)) = 3
    /\ EventsBy(1)[3].event.final

-----------------------------------------------------------------------------
(* C19 *)

\* C19: an execute(t) that was in its delay when a cancelTask(t) ran
\* publishes no event after the canceled event of that cancelTask.
C19_CancelObserved ==
    \A i \in DOMAIN invocations :
        (invocations[i].kind = "execute" /\ CancelledInDelay(i)) =>
            \A p \in invocations[i].delayed + 1 .. Len(published) :
                (published[p].event.state = "canceled"
                    /\ published[p].event.taskId = invocations[i].taskId) =>
                    \A q \in p + 1 .. Len(published) : published[q].by # i

-----------------------------------------------------------------------------
(* C20 *)

\* C20: every cancelTask(t, bus) has published exactly one event, on its bus:
\* a status update of task t with state canceled and final = true.
C20_CancelPublishesOneFinal ==
    \A i \in DOMAIN invocations :
        invocations[i].kind = "cancelTask" =>
            LET evs == EventsBy(i)
            IN  /\ Len(evs) = 1
                /\ evs[1].bus = invocations[i].eventBus
                /\ evs[1].event.kind = "status-update"
                /\ evs[1].event.taskId = invocations[i].taskId
                /\ evs[1].event.state = "canceled"
                /\ evs[1].event.final

\* a cancelTask of a task with an execute in flight, on another bus than the
\* execute's, and a cancelTask of a task never executed
C20_Witness ==
    /\ Len(invocations) = 3
    /\ invocations[1].kind = "execute"
    /\ invocations[2].kind = "cancelTask"
    /\ invocations[3].kind = "cancelTask"
    /\ invocations[2].taskId = invocations[1].taskId
    /\ invocations[2].eventBus # invocations[1].eventBus
    /\ invocations[3].taskId # invocations[1].taskId
    /\ invocations[1].pc = "delay"
    /\ Len(EventsBy(2)) = 1
    /\ Len(EventsBy(3)) = 1
    /\ EventsBy(3)[1].bus = invocations[3].eventBus

-----------------------------------------------------------------------------
(* C21 *)

\* sendStreamResponse has returned
StreamTerminated ==
    /\ pc = "done"
    /\ LastOp \in StreamOps
    /\ outcome.kind = "resolved"

\* C21: when sendStreamResponse has returned, by normal completion of the
\* stream or by a failure, the connection is ended and res.end was called
\* exactly once; after a normal completion no `event: error` line was written
\* and the chunks are the id line and the data line of each yielded event, in
\* yield order.
C21_ClosedExactlyOnce ==
    StreamTerminated =>
        /\ res.writableEnded
        /\ res.endCalls = 1
        /\ stream.failure.kind = "none" =>
              LET k == Len(stream.yielded)
              IN  /\ stream.events = <<>>
                  /\ Len(res.written) = 2 * k
                  /\ \A i \in 1 .. k :
                        /\ res.written[2 * i - 1].kind = "id"
                        /\ res.written[2 * i] =
                              [kind |-> "data", v |-> stream.yielded[i].json]
                  /\ \A i \in DOMAIN res.written : res.written[i].kind # "event"

\* a stream that completed after two different events: four chunks, one end
C21_Witness ==
    /\ StreamTerminated
    /\ stream.failure.kind = "none"
    /\ Len(stream.yielded) = 2
    /\ stream.yielded[1] # stream.yielded[2]
    /\ Len(res.written) = 4
    /\ res.endCalls = 1

-----------------------------------------------------------------------------
(* C22 *)

\* the execute invocations for task t that started before invocation i
ExecutesBefore(i, t) ==
    { j \in 1 .. i - 1 : invocations[j].kind = "execute" /\ invocations[j].taskId = t }

\* C22: the canceled event of a cancelTask(t) that follows an execute for t
\* carries the context id of the latest execute for t.
C22_CancelCarriesTaskContext ==
    \A i \in DOMAIN invocations :
        (invocations[i].kind = "cancelTask"
            /\ ExecutesBefore(i, invocations[i].taskId) # {}) =>
            LET j == CHOOSE x \in ExecutesBefore(i, invocations[i].taskId) :
                        \A y \in ExecutesBefore(i, invocations[i].taskId) : y <= x
            IN  EventsBy(i)[1].event.contextId = invocations[j].requestContext.contextId

-----------------------------------------------------------------------------
(* C23 *)

\* a final event for the task of invocation i was published after i started
FinalSinceStart(i) ==
    \E p \in invocations[i].started + 1 .. Len(published) :
        /\ published[p].event.final
        /\ published[p].event.taskId = invocations[i].taskId

\* invocation i is an execute that has started
ExecuteStarted(i) == i \in DOMAIN invocations /\ invocations[i].kind = "execute"

\* invocation i is an execute that has returned
ExecuteReturned(i) == ExecuteStarted(i) /\ invocations[i].pc = "returned"

\* C23: every execute invocation eventually returns, and whenever one has
\* returned a final event for its task has been published since it started.
C23_ExecuteEndsWithFinalEvent ==
    \A i \in 1 .. MaxInvocations :
        /\ ExecuteStarted(i) ~> ExecuteReturned(i)
        /\ [](ExecuteReturned(i) => FinalSinceStart(i))

\* an execute that returned without publishing after its delay, its task
\* cancelled meanwhile: the only final event since its start is the
\* cancelTask's
C23_Witness ==
    /\ Len(invocations) >= 2
    /\ invocations[1].kind = "execute"
    /\ invocations[1].pc = "returned"
    /\ CancelledInDelay(1)
    /\ \A j \in DOMAIN EventsBy(1) : ~EventsBy(1)[j].event.final
    /\ FinalSinceStart(1)

-----------------------------------------------------------------------------
(* C24 *)

\* the operation an action names, whatever its letter case
OperationOfAction(action) ==
    CASE LowerCaseOf(action) = <<"s","e","n","d">> -> "sendMessage"
      [] LowerCaseOf(action) = <<"s","t","r","e","a","m">> -> "sendMessageStream"
      [] LowerCaseOf(action) = <<"c","a","n","c","e","l">> -> "cancelTask"
      [] LowerCaseOf(action) = <<"s","u","b","s","c","r","i","b","e">> -> "resubscribe"
      [] OTHER -> "none"

\* a POST the colon-action routes accept whose action is, in some letter
\* case, one of the route's actions
KnownActionRequest ==
    /\ req.method = "POST"
    /\ \/ /\ req.shape = "message"
          /\ OperationOfAction(req.action) \in {"sendMessage", "sendMessageStream"}
       \/ /\ req.shape = "taskAction"
          /\ req.taskId # <<>>
          /\ OperationOfAction(req.action) \in {"cancelTask", "resubscribe"}

\* C24: a POST accepted by a colon-action route whose action is send, stream,
\* cancel or subscribe in any letter case is not answered with MethodNotFound,
\* and, on an agent with every capability, the operation of the action is
\* called, for a task action with the task id of the path.
C24_ActionCaseInsensitive ==
    (Handled /\ KnownActionRequest /\ card = FullCard /\ CardResolved) =>
        /\ ~(caught.any /\ outcome.kind = "none" /\ caught.error.code = -32601)
        /\ \E i \in DOMAIN calls :
              /\ calls[i].op = OperationOfAction(req.action)
              /\ req.shape = "taskAction" => Field(calls[i].params, K_id) = JStr(req.taskId)

=============================================================================
